---------------------------- MODULE Spec2Model ----------------------------
(*
  Model of signature.c: the digest builder (sha256_tx_one_input), the signer
  (sign_hash, sign_tx_input), the verifier (check_signed_hash), the 2-of-2
  check (check_2of2_sig) and the protobuf codec (signature_to_proto,
  proto_to_signature).

  Four specifications share the variables:
    SpecDigest  threads stepping through sha256_tx_one_input on one shared
                transaction, one load or store of the transaction at a time,
                their calls serialised by a per-transaction lock;
    SpecRace    the same threads and steps without the lock;
    SpecSig     sign_hash, sign_tx_input, check_signed_hash, check_2of2_sig
                as whole calls over a scaled-down curve y^2 = x^3 + 7;
    SpecCodec   signature_to_proto and proto_to_signature on 32-byte r and s,
                on a little-endian or a big-endian host.
*)
EXTENDS Integers, Sequences, FiniteSets, TLC

VARIABLES
    tx,        \* struct bitcoin_tx: input_count and input[i].{script_length, script}
    pc,        \* per thread: position inside sha256_tx_one_input
    arg,       \* per thread: the arguments of the call in progress
    loopi,     \* per thread: the loop variable i of lines 64-65
    view,      \* per thread: the inputs as sha256_tx has read them so far
    hash,      \* per thread: *hash, the digest written at line 73
    entry,     \* per thread: the transaction as it was when the call started
    tx0,       \* the transaction as the caller first handed it over
    prev,      \* the last call that returned: its arguments and digest
    calls,     \* number of calls started so far
    locking,   \* whether the callers serialise calls on the transaction
    lock,      \* the thread holding the per-transaction lock (0: free)
    aborted,   \* an assert() failed: the process is gone
    sg,        \* SpecSig: the last signer/verifier call, its inputs and outcome
    host,      \* SpecCodec: byte order of the machine
    cd         \* SpecCodec: the last codec call, its inputs and outcome

vars == <<tx, pc, arg, loopi, view, hash, entry, tx0, prev, calls, locking,
          lock, aborted, sg, host, cd>>

threadVars ==
    <<pc, arg, loopi, view, hash, entry, tx0, prev, calls, locking, lock>>

-----------------------------------------------------------------------------
(* Bounds *)

MaxInputs == 2        \* tx->input_count ranges over 1..MaxInputs
MaxPriv == 2          \* private keys range over 1..MaxPriv
MaxDigest == 2        \* digests handed to sign_hash directly: 0..MaxDigest
MaxNonce == 2         \* nonces behind the signatures given to check_2of2_sig
MaxByte == 2          \* byte values the codec's test signatures are built from
MaxCalls == 2         \* calls of the digest builder started in one behaviour

-----------------------------------------------------------------------------
(* Memory: the script buffers a pointer can refer to *)

NULL == "NULL"

\* A pay-to-script-hash script (OP_HASH160 <20 bytes> OP_EQUAL) and a
\* one-byte script that is not of that shape.
Mem ==
    [ p2sh |-> <<169, 20, 1, 2, 3, 4, 5, 6, 7, 8, 9, 10, 11, 12, 13, 14, 15,
                 16, 17, 18, 19, 20, 135>>,
      op1  |-> <<81>> ]

Pointers == DOMAIN Mem

\* (script, script_len) pairs a caller passes: a whole buffer, or nothing.
ScriptArgs ==
    { [script |-> p, len |-> Len(Mem[p])] : p \in Pointers }
        \cup { [script |-> NULL, len |-> 0] }

\* One input of the transaction, as far as signature.c reads or writes it.
EmptyInput == [script_length |-> 0, script |-> NULL]

InputStates ==
    { EmptyInput, [script_length |-> 0, script |-> "op1"],
      [script_length |-> 1, script |-> "op1"] }

Transactions ==
    UNION { { [input_count |-> n, input |-> f] : f \in [1..n -> InputStates] }
            : n \in 1..MaxInputs }

\* tx->input[i], with C's zero-based index.
Input(t, i) == t.input[i + 1]

AllZeroed(t) == \A i \in 0..(t.input_count - 1) : Input(t, i).script_length = 0

-----------------------------------------------------------------------------
(* The hash module: sha256_tx, sha256_le32, sha256_double_done *)

HashMod == 59
SIGHASH_ALL == 1

RECURSIVE Flatten(_)
Flatten(ss) == IF ss = <<>> THEN <<>> ELSE Head(ss) \o Flatten(Tail(ss))

\* Whether reading script_length bytes through script stays inside the
\* buffer script points to.
InBounds(in) ==
    \/ in.script_length = 0
    \/ in.script # NULL /\ in.script_length <= Len(Mem[in.script])

\* The bytes of one input's script: script_length bytes read through script.
ScriptBytes(in) ==
    IF in.script_length = 0 THEN <<>>
    ELSE SubSeq(Mem[in.script], 1, in.script_length)

\* sha256_tx: the transaction's encoding, input by input: the script's
\* length, then its bytes.
sha256_tx(t) ==
    <<t.input_count>>
        \o Flatten([i \in 1..t.input_count |->
                       <<t.input[i].script_length>> \o ScriptBytes(t.input[i])])

\* sha256_le32: four bytes, least significant first.
sha256_le32(v) == <<v % 256, (v \div 256) % 256, (v \div 65536) % 256,
             (v \div 16777216) % 256>>

\* The double hash, scaled down to one value below HashMod.
\* The running hash state after absorbing bytes, byte by byte in order. The
\* sequence is split in halves, and the state after the first half is
\* looked at before the second half is absorbed, which keeps the evaluation
\* shallow.
RECURSIVE sha256_update(_, _)
sha256_update(acc, bytes) ==
    IF acc < 0 \/ bytes = <<>> THEN acc
    ELSE IF Len(bytes) = 1 THEN (acc * 33 + bytes[1] + 1) % HashMod
    ELSE LET half == Len(bytes) \div 2
             left == sha256_update(acc, SubSeq(bytes, 1, half))
         IN IF left < 0 THEN left
            ELSE sha256_update(left, SubSeq(bytes, half + 1, Len(bytes)))

\* sha256_double_done: the second round over the first round's state.
sha256_double(bytes) ==
    LET acc == sha256_update(5, bytes) IN (acc * acc + 7) % HashMod

\* Lines 70-73: hash the transaction as it stands, then the sighash type.
HashTx(t) == sha256_double(sha256_tx(t) \o sha256_le32(SIGHASH_ALL))

-----------------------------------------------------------------------------
(* sha256_tx_one_input, statement by statement *)

\* Line 67: tx->input[input_num].script_length = script_len.
InstallLength(t, a) ==
    [t EXCEPT !.input[a.input_num + 1].script_length = a.len]

\* Line 68: tx->input[input_num].script = script.
InstallPointer(t, a) ==
    [t EXCEPT !.input[a.input_num + 1].script = a.script]

\* Lines 67-68 run with nothing in between.
InstallScript(t, a) == InstallPointer(InstallLength(t, a), a)

\* A line 76 that leaves the length as it is.
ResetLengthSkipped(t, a) == t

\* A line 76 that always clears the length of input 0 instead of input_num.
ResetLengthFirstInput(t, a) ==
    [t EXCEPT !.input[1].script_length = 0]

\* Line 76: tx->input[input_num].script_length = 0.
ResetLength(t, a) ==
    [t EXCEPT !.input[a.input_num + 1].script_length = 0]

\* Line 77: tx->input[input_num].script = NULL.
ResetPointer(t, a) ==
    [t EXCEPT !.input[a.input_num + 1].script = NULL]

\* Lines 76-77 run with nothing in between: "Reset it for next time."
ResetScript(t, a) == ResetPointer(ResetLength(t, a), a)

\* The whole function run with nothing else touching tx: "abort" when an
\* assertion fails (lines 61, 65), else the digest and the transaction left.
sha256_tx_one_input(t, a) ==
    IF ~(a.input_num < t.input_count) \/ ~AllZeroed(t)
    THEN [status |-> "abort", tx |-> t, hash |-> -1]
    ELSE [status |-> "ok",
          tx |-> ResetScript(InstallScript(t, a), a),
          hash |-> HashTx(InstallScript(t, a))]

-----------------------------------------------------------------------------
(* The curve behind NID_secp256k1, scaled down: y^2 = x^3 + 7 over the field
   of CurveP elements, whose points form a group of prime order CurveN. As on
   secp256k1 the order is odd. *)

CurveP == 43
CurveB == 7
CurveN == 31
CurveGx == 2
CurveGy == 12

Inf == [inf |-> TRUE]
G == [x |-> CurveGx, y |-> CurveGy]

OnCurve(x, y) == (y * y) % CurveP = (x * x * x + CurveB) % CurveP

CurvePoints ==
    { [x |-> px, y |-> py] : px \in 0..(CurveP - 1), py \in 0..(CurveP - 1) }

GroupPoints == { q \in CurvePoints : OnCurve(q.x, q.y) } \cup {Inf}

\* Inverses modulo the field prime and modulo the group order.
InvP == [a \in 1..(CurveP - 1) |->
            CHOOSE b \in 1..(CurveP - 1) : (a * b) % CurveP = 1]
InvN == [a \in 1..(CurveN - 1) |->
            CHOOSE b \in 1..(CurveN - 1) : (a * b) % CurveN = 1]

\* Point addition.
PointAdd(a, b) ==
    IF a = Inf THEN b
    ELSE IF b = Inf THEN a
    ELSE IF a.x = b.x /\ (a.y + b.y) % CurveP = 0 THEN Inf
    ELSE LET m == IF a = b
                  THEN (3 * a.x * a.x * InvP[(2 * a.y) % CurveP]) % CurveP
                  ELSE ((b.y - a.y) * InvP[(b.x - a.x) % CurveP]) % CurveP
             x3 == (m * m - a.x - b.x) % CurveP
         IN [x |-> x3, y |-> (m * (a.x - x3) - a.y) % CurveP]

\* Scalar multiplication, tabulated over the group.
RECURSIVE PointMulRec(_, _)
PointMulRec(k, a) ==
    IF k = 0 THEN Inf
    ELSE IF k % 2 = 1 THEN PointAdd(a, PointMulRec(k - 1, a))
    ELSE LET half == PointMulRec(k \div 2, a) IN PointAdd(half, half)

PointMulTable ==
    [k \in 0..(CurveN - 1), a \in GroupPoints |-> PointMulRec(k, a)]

PointMul(k, a) == PointMulTable[k % CurveN, a]

\* A NULL ECDSA_SIG * or struct signature *.
NullSig == [null |-> TRUE]

\* ECDSA_do_sign with nonce k: the raw (r, s), or nothing when this nonce
\* gives r = 0 or s = 0 (the library then draws another nonce).
ECDSA_do_sign(h, d, k) ==
    LET bigR == PointMul(k, G)
        r == bigR.x % CurveN
        sv == (InvN[k] * ((h + r * d) % CurveN)) % CurveN
    IN IF r = 0 \/ sv = 0 THEN NullSig ELSE [r |-> r, s |-> sv]

\* ECDSA_do_verify on decoded r, s and public point q: 1 valid, 0 invalid
\* (r or s out of range, or another r), -1 when u1*G + u2*Q is the point at
\* infinity, whose affine x the library cannot take.
ECDSA_do_verify(h, r, sv, q) ==
    IF r < 1 \/ r >= CurveN \/ sv < 1 \/ sv >= CurveN THEN 0
    ELSE LET w == InvN[sv]
             u1 == (h * w) % CurveN
             u2 == (r * w) % CurveN
             x == PointAdd(PointMul(u1, G), PointMul(u2, q))
         IN IF x = Inf THEN -1
            ELSE IF x.x % CurveN = r THEN 1 ELSE 0

-----------------------------------------------------------------------------
(* struct signature: r and s, 32 bytes each, most significant byte first *)

SigBytes == 32

Zeros(n) == [i \in 1..n |-> 0]

\* BN_bn2bin: the magnitude's bytes, most significant first, no leading zero.
RECURSIVE BN_bn2bin(_)
BN_bn2bin(v) == IF v = 0 THEN <<>> ELSE BN_bn2bin(v \div 256) \o <<v % 256>>

\* Lines 38-46: right-align the bytes in a zeroed 32-byte field.
Pack(v) == Zeros(SigBytes - Len(BN_bn2bin(v))) \o BN_bn2bin(v)

\* BN_bin2bn on a 32-byte field. Every value from BnCap up is out of range
\* for the verifier alike, so the decoded number saturates at BnCap.
BnCap == 65536

BN_bin2bn(bytes) ==
    IF \E i \in 1..(SigBytes - 2) : bytes[i] # 0 THEN BnCap
    ELSE bytes[SigBytes - 1] * 256 + bytes[SigBytes]

\* (signature->s[31] & 1) == 0
EvenS(sig) == sig.s[SigBytes] % 2 = 0

-----------------------------------------------------------------------------
(* sign_hash *)

\* Canonicalisation that makes s even by adding one instead of negating it.
EvenSByIncrement(raw) ==
    IF raw.s % 2 = 1 THEN [raw EXCEPT !.s = raw.s + 1] ELSE raw

\* Lines 25-36: an odd s is replaced by order - s.
EvenSByNegation(raw) ==
    IF raw.s % 2 = 1 THEN [raw EXCEPT !.s = CurveN - raw.s] ELSE raw

\* sign_hash that packs the primitive's (r, s) as it comes.
SignHashAsSigned(raw) ==
    IF raw = NullSig THEN [status |-> "null", sig |-> NullSig]
    ELSE [status |-> "ok", sig |-> [r |-> Pack(raw.r), s |-> Pack(raw.s)]]

\* sign_hash, given what ECDSA_do_sign returned: NULL (line 20), an abort at
\* the assertion of line 35, or the packed signature.
sign_hash(raw) ==
    IF raw = NullSig THEN [status |-> "null", sig |-> NullSig]
    ELSE LET c == EvenSByNegation(raw)
         IN IF c.s % 2 = 1 THEN [status |-> "abort", sig |-> NullSig]
            ELSE [status |-> "ok", sig |-> [r |-> Pack(c.r), s |-> Pack(c.s)]]

-----------------------------------------------------------------------------
(* check_signed_hash *)

\* struct pubkey holds a form byte, x and y; the compressed forms do not
\* use y, which pubkey_len leaves out of what the decoder is given.
\* struct pubkey for private key d: the uncompressed point, 04 x y.
PubKeyOf(d) == LET q == PointMul(d, G) IN <<4, q.x, q.y>>

\* The same point in hybrid form: 06 or 07 by the parity of y, then x y.
HybridKeyOf(d) == LET q == PointMul(d, G) IN <<6 + (q.y % 2), q.x, q.y>>

\* The same point in compressed form: 02 or 03 by the parity of y, then x.
CompressedKeyOf(d) == LET q == PointMul(d, G) IN <<2 + (q.y % 2), q.x, 0>>

\* The y of the given parity over x, for the compressed forms.
Decompress(x, odd) ==
    { y \in 0..(CurveP - 1) : OnCurve(x, y) /\ y % 2 = odd }

\* o2i_ECPublicKey: the point, or Inf (for NULL) when the bytes are not the
\* encoding of a curve point. 04: x y; 06, 07: x y with the parity of y in
\* the form byte; 02, 03: x with the parity of y in the form byte.
o2i_ECPublicKey(key) ==
    IF key[1] \in {4, 6, 7}
    THEN IF /\ key[2] < CurveP /\ key[3] < CurveP
            /\ OnCurve(key[2], key[3])
            /\ key[1] = 4 \/ key[3] % 2 = key[1] % 2
         THEN [x |-> key[2], y |-> key[3]]
         ELSE Inf
    ELSE IF key[1] \in {2, 3}
    THEN IF key[2] < CurveP /\ Decompress(key[2], key[1] % 2) # {}
         THEN [x |-> key[2],
               y |-> CHOOSE y \in Decompress(key[2], key[1] % 2) : TRUE]
         ELSE Inf
    ELSE Inf

\* What the libraries can do to one call besides computing: BN_bin2bn
\* returning NULL, ECDSA_do_verify returning -1 for want of memory.
Faults == {"none", "bn_fail", "verify_error"}

\* Line 98, and the state of the locals as the function runs.
Entered ==
    [status |-> "abort", ok |-> FALSE, path |-> "assert",
     eckey_freed |-> FALSE, bn_init |-> FALSE, bn_freed |-> FALSE]

\* out: (lines 132-134)
Out(st, ok, path) ==
    [st EXCEPT !.status = "ret", !.ok = ok, !.path = path, !.eckey_freed = TRUE]

\* free_bns: (lines 128-130), falling through to out:
FreeBns(st, ok, path) == Out([st EXCEPT !.bn_freed = TRUE], ok, path)

\* A switch without the case for -1.
VerifySwitchNoError(st, v) ==
    IF v = 0 THEN FreeBns(st, FALSE, "invalid")
    ELSE FreeBns(st, TRUE, "valid")

\* Lines 116-126: the switch on ECDSA_do_verify's result.
VerifySwitch(st, v) ==
    IF v = 0 THEN FreeBns(st, FALSE, "invalid")
    ELSE IF v = -1 THEN FreeBns(st, FALSE, "error")
    ELSE FreeBns(st, TRUE, "valid")

\* check_signed_hash under library outcome f.
check_signed_hash(h, sig, key, f) ==
    IF ~EvenS(sig) THEN Entered
    ELSE IF o2i_ECPublicKey(key) = Inf THEN Out(Entered, FALSE, "bad_key")
    ELSE LET st == [Entered EXCEPT !.bn_init = TRUE]
         IN IF f = "bn_fail" THEN FreeBns(st, FALSE, "bn_fail")
            ELSE VerifySwitch(st,
                    IF f = "verify_error" THEN -1
                    ELSE ECDSA_do_verify(h, BN_bin2bn(sig.r), BN_bin2bn(sig.s),
                                     o2i_ECPublicKey(key)))

-----------------------------------------------------------------------------
(* check_2of2_sig *)

OP_HASH160 == 169
OP_EQUAL == 135

\* is_p2sh: OP_HASH160, a push of 20 bytes, OP_EQUAL.
is_p2sh(s) ==
    /\ s.len = 23
    /\ Mem[s.script][1] = OP_HASH160
    /\ Mem[s.script][2] = 20
    /\ Mem[s.script][23] = OP_EQUAL

Verdict(status, ret, t, h) == [status |-> status, ret |-> ret, tx |-> t, hash |-> h]

\* A check that looks at the first signature only.
Check2of2FirstOnly(t, n, output, key1, key2, sig1, sig2, f1, f2) ==
    LET a == [input_num |-> n, script |-> output.script, len |-> output.len]
        dg == sha256_tx_one_input(t, a)
    IN IF ~(n < t.input_count) \/ ~is_p2sh(output) \/ dg.status = "abort"
       THEN Verdict("abort", FALSE, t, -1)
       ELSE LET c1 == check_signed_hash(dg.hash, sig1, key1, f1)
            IN IF c1.status = "abort" THEN Verdict("abort", FALSE, dg.tx, dg.hash)
               ELSE Verdict("ret", c1.ok, dg.tx, dg.hash)

\* check_2of2_sig: the assertions of lines 143 and 145, the digest, then the
\* two checks, the second one only if the first returned true.
check_2of2_sig(t, n, output, key1, key2, sig1, sig2, f1, f2) ==
    LET a == [input_num |-> n, script |-> output.script, len |-> output.len]
        dg == sha256_tx_one_input(t, a)
    IN IF ~(n < t.input_count) \/ ~is_p2sh(output) \/ dg.status = "abort"
       THEN Verdict("abort", FALSE, t, -1)
       ELSE LET c1 == check_signed_hash(dg.hash, sig1, key1, f1)
                c2 == check_signed_hash(dg.hash, sig2, key2, f2)
            IN IF c1.status = "abort" THEN Verdict("abort", FALSE, dg.tx, dg.hash)
               ELSE IF ~c1.ok THEN Verdict("ret", FALSE, dg.tx, dg.hash)
               ELSE IF c2.status = "abort"
               THEN Verdict("abort", FALSE, dg.tx, dg.hash)
               ELSE Verdict("ret", c2.ok, dg.tx, dg.hash)

-----------------------------------------------------------------------------
(* SpecDigest: threads calling the digest builder on the shared transaction *)

Threads == {1, 2}

None == [none |-> TRUE]

NoArg == [input_num |-> 0, script |-> NULL, len |-> 0]

\* Values of sg and cd while the signer, verifier and codec are not running.
Idle == [op |-> "idle"]

\* The discipline asked of callers that share a transaction: one call at a
\* time. Without it a call starts whenever its thread is free.
Serialized(t) == locking => lock = 0

InitDigest ==
    /\ tx \in Transactions
    /\ tx0 = tx
    /\ pc = [t \in Threads |-> "idle"]
    /\ arg = [t \in Threads |-> NoArg]
    /\ loopi = [t \in Threads |-> 0]
    /\ view = [t \in Threads |-> <<>>]
    /\ hash = [t \in Threads |-> -1]
    /\ entry = [t \in Threads |-> tx]
    /\ prev = None
    /\ calls = 0
    /\ locking = TRUE
    /\ lock = 0
    /\ aborted = FALSE
    /\ sg = Idle
    /\ host = "little"
    /\ cd = Idle

\* sign_tx_input line 87 / check_2of2_sig line 146: a thread enters
\* sha256_tx_one_input with an input number, a script and a digest buffer
\* (lines 85, 142) that nothing has been written to yet.
Call(t) ==
    /\ ~aborted
    /\ pc[t] = "idle"
    /\ calls < MaxCalls
    /\ Serialized(t)
    /\ \E n \in 0..MaxInputs, s \in ScriptArgs :
          arg' = [arg EXCEPT ![t] =
                     [input_num |-> n, script |-> s.script, len |-> s.len]]
    /\ entry' = [entry EXCEPT ![t] = tx]
    /\ pc' = [pc EXCEPT ![t] = "assert_in"]
    /\ lock' = IF locking THEN t ELSE lock
    /\ calls' = calls + 1
    /\ hash' = [hash EXCEPT ![t] = -1]
    /\ UNCHANGED <<tx, tx0, loopi, view, prev, locking, aborted, sg, host, cd>>

\* Line 61: assert(input_num < tx->input_count).
AssertInputNum(t) ==
    /\ ~aborted
    /\ pc[t] = "assert_in"
    /\ IF arg[t].input_num < tx.input_count
       THEN /\ pc' = [pc EXCEPT ![t] = "loop"]
            /\ loopi' = [loopi EXCEPT ![t] = 0]
            /\ UNCHANGED aborted
       ELSE /\ pc' = [pc EXCEPT ![t] = "abort"]
            /\ aborted' = TRUE
            /\ UNCHANGED loopi
    /\ UNCHANGED <<tx, tx0, arg, view, hash, entry, prev, calls, locking, lock,
                   sg, host, cd>>

\* Lines 64-65: one iteration of the loop asserting script_length == 0.
AssertZeroed(t) ==
    /\ ~aborted
    /\ pc[t] = "loop"
    /\ IF loopi[t] < tx.input_count
       THEN IF Input(tx, loopi[t]).script_length = 0
            THEN /\ loopi' = [loopi EXCEPT ![t] = loopi[t] + 1]
                 /\ UNCHANGED <<pc, aborted>>
            ELSE /\ pc' = [pc EXCEPT ![t] = "abort"]
                 /\ aborted' = TRUE
                 /\ UNCHANGED loopi
       ELSE /\ pc' = [pc EXCEPT ![t] = "install_len"]
            /\ UNCHANGED <<loopi, aborted>>
    /\ UNCHANGED <<tx, tx0, arg, view, hash, entry, prev, calls, locking, lock,
                   sg, host, cd>>

\* Line 67: the store of the length.
StoreLength(t) ==
    /\ ~aborted
    /\ pc[t] = "install_len"
    /\ tx' = InstallLength(tx, arg[t])
    /\ pc' = [pc EXCEPT ![t] = "install_ptr"]
    /\ UNCHANGED <<tx0, arg, loopi, view, hash, entry, prev, calls, locking,
                   lock, aborted, sg, host, cd>>

\* Line 68: the store of the pointer.
StorePointer(t) ==
    /\ ~aborted
    /\ pc[t] = "install_ptr"
    /\ tx' = InstallPointer(tx, arg[t])
    /\ pc' = [pc EXCEPT ![t] = "read_len"]
    /\ loopi' = [loopi EXCEPT ![t] = 0]
    /\ view' = [view EXCEPT ![t] = <<>>]
    /\ UNCHANGED <<tx0, arg, hash, entry, prev, calls, locking, lock, aborted,
                   sg, host, cd>>

\* Line 71, sha256_tx: the load of the next input's script_length, or the
\* end of the inputs.
ReadLength(t) ==
    /\ ~aborted
    /\ pc[t] = "read_len"
    /\ IF loopi[t] < tx.input_count
       THEN /\ view' = [view EXCEPT ![t] = Append(view[t],
                          [script_length |-> Input(tx, loopi[t]).script_length,
                           script |-> NULL])]
            /\ pc' = [pc EXCEPT ![t] = "read_ptr"]
       ELSE /\ pc' = [pc EXCEPT ![t] = "hash"]
            /\ UNCHANGED view
    /\ UNCHANGED <<tx, tx0, arg, loopi, hash, entry, prev, calls, locking,
                   lock, aborted, sg, host, cd>>

\* Line 71, sha256_tx: the load of the same input's script pointer.
ReadPointer(t) ==
    /\ ~aborted
    /\ pc[t] = "read_ptr"
    /\ view' = [view EXCEPT ![t][loopi[t] + 1].script =
                   Input(tx, loopi[t]).script]
    /\ loopi' = [loopi EXCEPT ![t] = loopi[t] + 1]
    /\ pc' = [pc EXCEPT ![t] = "read_len"]
    /\ UNCHANGED <<tx, tx0, arg, hash, entry, prev, calls, locking, lock,
                   aborted, sg, host, cd>>

\* The transaction as sha256_tx of thread t has read it.
Viewed(t) == [input_count |-> tx.input_count, input |-> view[t]]

\* Lines 71-73: the script bytes are read through the loaded pointers and the
\* digest is written. A read that leaves its buffer (a length and a pointer
\* from different calls) is undefined: the process dies, or the digest is
\* made of whatever the memory holds.
Hash(t) ==
    /\ ~aborted
    /\ pc[t] = "hash"
    /\ IF \A i \in 1..Len(view[t]) : InBounds(view[t][i])
       THEN /\ hash' = [hash EXCEPT ![t] = HashTx(Viewed(t))]
            /\ pc' = [pc EXCEPT ![t] = "reset_len"]
            /\ UNCHANGED aborted
       ELSE \/ /\ pc' = [pc EXCEPT ![t] = "fault"]
               /\ aborted' = TRUE
               /\ UNCHANGED hash
            \/ /\ \E d \in 0..(HashMod - 1) : hash' = [hash EXCEPT ![t] = d]
               /\ pc' = [pc EXCEPT ![t] = "reset_len"]
               /\ UNCHANGED aborted
    /\ UNCHANGED <<tx, tx0, arg, loopi, view, entry, prev, calls, locking,
                   lock, sg, host, cd>>

\* Line 76: the store of length 0.
ClearLength(t) ==
    /\ ~aborted
    /\ pc[t] = "reset_len"
    /\ tx' = ResetLength(tx, arg[t])
    /\ pc' = [pc EXCEPT ![t] = "reset_ptr"]
    /\ UNCHANGED <<tx0, arg, loopi, view, hash, entry, prev, calls, locking,
                   lock, aborted, sg, host, cd>>

\* Line 77: the store of the NULL pointer.
ClearPointer(t) ==
    /\ ~aborted
    /\ pc[t] = "reset_ptr"
    /\ tx' = ResetPointer(tx, arg[t])
    /\ pc' = [pc EXCEPT ![t] = "ret"]
    /\ UNCHANGED <<tx0, arg, loopi, view, hash, entry, prev, calls, locking,
                   lock, aborted, sg, host, cd>>

\* Line 78: the function returns; the caller goes on with the digest in
\* *hash, and the call's arguments and locals are gone.
Return(t) ==
    /\ ~aborted
    /\ pc[t] = "ret"
    /\ pc' = [pc EXCEPT ![t] = "idle"]
    /\ prev' = [arg |-> arg[t], hash |-> hash[t]]
    /\ lock' = IF locking THEN 0 ELSE lock
    /\ arg' = [arg EXCEPT ![t] = NoArg]
    /\ loopi' = [loopi EXCEPT ![t] = 0]
    /\ view' = [view EXCEPT ![t] = <<>>]
    /\ entry' = [entry EXCEPT ![t] = tx0]
    /\ UNCHANGED <<tx, tx0, hash, calls, locking, aborted, sg, host, cd>>

NextDigest ==
    \E t \in Threads :
        \/ Call(t)
        \/ AssertInputNum(t)
        \/ AssertZeroed(t)
        \/ StoreLength(t)
        \/ StorePointer(t)
        \/ ReadLength(t)
        \/ ReadPointer(t)
        \/ Hash(t)
        \/ ClearLength(t)
        \/ ClearPointer(t)
        \/ Return(t)

SpecDigest == InitDigest /\ [][NextDigest]_vars

\* The same threads with callers that do not serialise their calls, on a
\* transaction whose scripts are all empty.
InitRace ==
    /\ tx \in { t \in Transactions : AllZeroed(t) }
    /\ tx0 = tx
    /\ pc = [t \in Threads |-> "idle"]
    /\ arg = [t \in Threads |-> NoArg]
    /\ loopi = [t \in Threads |-> 0]
    /\ view = [t \in Threads |-> <<>>]
    /\ hash = [t \in Threads |-> -1]
    /\ entry = [t \in Threads |-> tx]
    /\ prev = None
    /\ calls = 0
    /\ locking = FALSE
    /\ lock = 0
    /\ aborted = FALSE
    /\ sg = Idle
    /\ host = "little"
    /\ cd = Idle

SpecRace == InitRace /\ [][NextDigest]_vars

-----------------------------------------------------------------------------
(* SpecSig: one call of the signer or of the 2-of-2 check on a fresh
   transaction, and the verifier run on what the signer returned *)

PrivKeys == 1..MaxPriv
Digests == 0..MaxDigest
Nonces == 1..(CurveN - 1)

\* Public keys handed to the verifier: real ones in uncompressed form, one
\* in hybrid and in compressed form, a hybrid form with the wrong parity, a
\* compressed form with no point over its x, a point off the curve and
\* bytes with a bad form byte.
KeyInputs ==
    { PubKeyOf(d) : d \in PrivKeys }
        \cup { HybridKeyOf(1), CompressedKeyOf(1),
               [HybridKeyOf(1) EXCEPT ![1] = 13 - @], <<2, 0, 0>>,
               <<4, 1, 1>>, <<0, 0, 0>> }

ZeroSig == [r |-> Zeros(SigBytes), s |-> Zeros(SigBytes)]

\* Signatures a caller may hand over, given one that sign_hash produced: the
\* same, the one with s replaced by order - s, one with another r, all zero.
Variants == {"same", "negate_s", "bump_r", "zero"}

Variant(v, sig) ==
    CASE v = "same" -> sig
      [] v = "negate_s" -> [sig EXCEPT !.s = Pack(CurveN - BN_bin2bn(sig.s))]
      [] v = "bump_r" -> [sig EXCEPT !.r = 
              Pack((BN_bin2bn(sig.r) % (CurveN - 1)) + 1)]
      [] v = "zero" -> ZeroSig

InitSig ==
    /\ tx \in { t \in Transactions : t.input_count = 1 }
    /\ tx0 = tx
    /\ pc = [t \in Threads |-> "idle"]
    /\ arg = [t \in Threads |-> NoArg]
    /\ loopi = [t \in Threads |-> 0]
    /\ view = [t \in Threads |-> <<>>]
    /\ hash = [t \in Threads |-> -1]
    /\ entry = [t \in Threads |-> tx]
    /\ prev = None
    /\ calls = 0
    /\ locking = TRUE
    /\ lock = 0
    /\ aborted = FALSE
    /\ sg = Idle
    /\ host = "little"
    /\ cd = Idle

\* What ECDSA_do_sign can return for digest h and key d: NULL, or the
\* signature of any nonce.
SignOutcomes(h, d) ==
    {NullSig} \cup { ECDSA_do_sign(h, d, k) : k \in Nonces }

\* sign_hash(ctx, private_key, h), lines 11-50.
SignHashCall ==
    /\ ~aborted
    /\ sg = Idle
    /\ \E h \in Digests, d \in PrivKeys :
          \E raw \in SignOutcomes(h, d) :
             /\ sg' = [op |-> "sign_hash", h |-> h, d |-> d, raw |-> raw,
                       out |-> sign_hash(raw)]
             /\ aborted' = (sign_hash(raw).status = "abort")
    /\ UNCHANGED <<tx, threadVars, host, cd>>

\* sign_tx_input, lines 80-89: the digest builder, then sign_hash.
SignTxInputCall ==
    /\ ~aborted
    /\ sg = Idle
    /\ \E n \in 0..1, s \in ScriptArgs, d \in PrivKeys :
          LET a == [input_num |-> n, script |-> s.script, len |-> s.len]
              dg == sha256_tx_one_input(tx, a)
          IN IF dg.status = "abort"
             THEN /\ sg' = [op |-> "sign_tx_input", h |-> -1, d |-> d,
                            raw |-> NullSig,
                            out |-> [status |-> "tx_abort", sig |-> NullSig]]
                  /\ aborted' = TRUE
                  /\ UNCHANGED tx
             ELSE \E raw \in SignOutcomes(dg.hash, d) :
                    /\ sg' = [op |-> "sign_tx_input", h |-> dg.hash, d |-> d,
                              raw |-> raw, out |-> sign_hash(raw)]
                    /\ aborted' = (sign_hash(raw).status = "abort")
                    /\ tx' = dg.tx
    /\ UNCHANGED <<threadVars, host, cd>>

\* check_signed_hash, lines 91-135, on a signature derived from the one just
\* made, over the signed digest or another one.
CheckSignedHashCall ==
    /\ ~aborted
    /\ sg.op \in {"sign_hash", "sign_tx_input"}
    /\ sg.out.status = "ok"
    /\ \E v \in Variants, key \in KeyInputs, f \in Faults,
          h \in {sg.h, (sg.h + 1) % HashMod} :
          LET sig == Variant(v, sg.out.sig)
              res == check_signed_hash(h, sig, key, f)
          IN /\ sg' = [op |-> "check_signed_hash", h |-> h, signed_h |-> sg.h,
                       d |-> sg.d, raw |-> sg.raw, signed |-> sg.out.sig,
                       sig |-> sig, key |-> key, fault |-> f, out |-> res]
             /\ aborted' = (res.status = "abort")
    /\ UNCHANGED <<tx, threadVars, host, cd>>

\* One call check_2of2_sig(tx, n, output, key1, key2, sig1, sig2), lines
\* 137-151, with library outcomes f1 and f2 for its two checks.
Check2of2Step(n, output, key1, key2, sig1, sig2, f1, f2) ==
    LET res == check_2of2_sig(tx, n, output, key1, key2, sig1, sig2, f1, f2)
    IN /\ sg' = [op |-> "check_2of2_sig", n |-> n, output |-> output,
                 key1 |-> key1, key2 |-> key2, sig1 |-> sig1, sig2 |-> sig2,
                 f1 |-> f1, f2 |-> f2, pre |-> tx, out |-> res]
       /\ tx' = res.tx
       /\ aborted' = (res.status = "abort")

\* The signature party d makes with nonce k over the digest of input n with
\* the output's script, as sign_tx_input returns it.
PartySig(n, output, d, k) ==
    LET a == [input_num |-> n, script |-> output.script, len |-> output.len]
    IN sign_hash(ECDSA_do_sign(sha256_tx_one_input(tx, a).hash, d, k))

\* check_2of2_sig on signatures derived from those the two parties make for
\* this input and script; where the call cannot get as far as a digest, on
\* the all-zero signatures.
Check2of2Call ==
    /\ ~aborted
    /\ sg = Idle
    /\ \E n \in 0..1, output \in ScriptArgs :
          LET a == [input_num |-> n, script |-> output.script, len |-> output.len]
          IN IF sha256_tx_one_input(tx, a).status = "abort" \/ ~is_p2sh(output)
             THEN Check2of2Step(n, output, PubKeyOf(1), PubKeyOf(1),
                                ZeroSig, ZeroSig, "none", "none")
             ELSE \E d1 \in PrivKeys, d2 \in PrivKeys,
                     k1 \in 1..MaxNonce, k2 \in 1..MaxNonce :
                  \E v1 \in Variants, v2 \in Variants,
                     e1 \in PrivKeys, e2 \in PrivKeys :
                  \E f1 \in Faults, f2 \in Faults :
                     /\ PartySig(n, output, d1, k1).status = "ok"
                     /\ PartySig(n, output, d2, k2).status = "ok"
                     /\ Check2of2Step(n, output, PubKeyOf(e1), PubKeyOf(e2),
                            Variant(v1, PartySig(n, output, d1, k1).sig),
                            Variant(v2, PartySig(n, output, d2, k2).sig),
                            f1, f2)
    /\ UNCHANGED <<threadVars, host, cd>>

NextSig ==
    \/ SignHashCall
    \/ SignTxInputCall
    \/ CheckSignedHashCall
    \/ Check2of2Call

SpecSig == InitSig /\ [][NextSig]_vars

-----------------------------------------------------------------------------
(* The codec: signature_to_proto and proto_to_signature *)

WordBytes == 8

Reverse(q) == [i \in 1..Len(q) |-> q[Len(q) + 1 - i]]

\* The value of a uint64_t is written as its eight base-256 digits, most
\* significant first. memcpy(&word, bytes, 8) gives the word the value whose
\* in-memory bytes are these: on a big-endian host the digits are the bytes,
\* on a little-endian host they are the bytes reversed.
LoadWord(h, bytes) == IF h = "big" THEN bytes ELSE Reverse(bytes)

\* memcpy(bytes, &word, 8): the in-memory bytes of the word.
StoreWord(h, digits) == IF h = "big" THEN digits ELSE Reverse(digits)

\* The eight bytes at offset off (0, 8, 16, 24) of a 32-byte field.
Chunk(bytes, off) == SubSeq(bytes, off + 1, off + WordBytes)

\* signature_to_proto whose assertion looks at r instead of s.
SignatureToProtoAssertR(h, sig) ==
    IF sig.r[SigBytes] % 2 # 0 THEN [status |-> "abort", pb |-> None]
    ELSE [status |-> "ok",
          pb |-> [r1 |-> LoadWord(h, Chunk(sig.r, 0)),
                  r2 |-> LoadWord(h, Chunk(sig.r, 8)),
                  r3 |-> LoadWord(h, Chunk(sig.r, 16)),
                  r4 |-> LoadWord(h, Chunk(sig.r, 24)),
                  s1 |-> LoadWord(h, Chunk(sig.s, 0)),
                  s2 |-> LoadWord(h, Chunk(sig.s, 8)),
                  s3 |-> LoadWord(h, Chunk(sig.s, 16)),
                  s4 |-> LoadWord(h, Chunk(sig.s, 24))]]

\* signature_to_proto, lines 153-171, on a host of byte order h.
signature_to_proto(h, sig) ==
    IF ~EvenS(sig) THEN [status |-> "abort", pb |-> None]
    ELSE [status |-> "ok",
          pb |-> [r1 |-> LoadWord(h, Chunk(sig.r, 0)),
                  r2 |-> LoadWord(h, Chunk(sig.r, 8)),
                  r3 |-> LoadWord(h, Chunk(sig.r, 16)),
                  r4 |-> LoadWord(h, Chunk(sig.r, 24)),
                  s1 |-> LoadWord(h, Chunk(sig.s, 0)),
                  s2 |-> LoadWord(h, Chunk(sig.s, 8)),
                  s3 |-> LoadWord(h, Chunk(sig.s, 16)),
                  s4 |-> LoadWord(h, Chunk(sig.s, 24))]]

\* proto_to_signature that copies s4 where s3 belongs.
ProtoToSignatureS4Twice(h, pb) ==
    LET out == [r |-> StoreWord(h, pb.r1) \o StoreWord(h, pb.r2)
                         \o StoreWord(h, pb.r3) \o StoreWord(h, pb.r4),
                s |-> StoreWord(h, pb.s1) \o StoreWord(h, pb.s2)
                         \o StoreWord(h, pb.s4) \o StoreWord(h, pb.s4)]
    IN [sig |-> out, ret |-> EvenS(out)]

\* proto_to_signature, lines 173-187: *sig as the eight memcpy leave it, and
\* the value returned.
proto_to_signature(h, pb) ==
    LET out == [r |-> StoreWord(h, pb.r1) \o StoreWord(h, pb.r2)
                         \o StoreWord(h, pb.r3) \o StoreWord(h, pb.r4),
                s |-> StoreWord(h, pb.s1) \o StoreWord(h, pb.s2)
                         \o StoreWord(h, pb.s3) \o StoreWord(h, pb.s4)]
    IN [sig |-> out, ret |-> EvenS(out)]

-----------------------------------------------------------------------------
(* SpecCodec *)

\* 32-byte fields: all zero, one non-zero byte anywhere, or all bytes
\* different.
Unit(i, v) == [j \in 1..SigBytes |-> IF j = i THEN v ELSE 0]
Ramp(b) == [j \in 1..SigBytes |-> (7 * j + b) % 256]

Fields ==
    {Zeros(SigBytes)}
        \cup { Unit(i, v) : i \in 1..SigBytes, v \in 1..MaxByte }
        \cup { Ramp(b) : b \in 0..MaxByte }

\* r varies less than s, which carries the parity the codec looks at.
RFields == {Zeros(SigBytes), Unit(1, 1), Unit(SigBytes, 1), Ramp(0)}

SigInputs == { [r |-> fr, s |-> fs] : fr \in RFields, fs \in Fields }

\* A wire record whose words have the given fields' chunks as values.
WireOf(fr, fs) ==
    [r1 |-> Chunk(fr, 0), r2 |-> Chunk(fr, 8), r3 |-> Chunk(fr, 16),
     r4 |-> Chunk(fr, 24), s1 |-> Chunk(fs, 0), s2 |-> Chunk(fs, 8),
     s3 |-> Chunk(fs, 16), s4 |-> Chunk(fs, 24)]

WireInputs == { WireOf(fr, fs) : fr \in RFields, fs \in Fields }

\* What the caller's struct signature holds before proto_to_signature
\* writes to it.
Buffers == {ZeroSig, [r |-> Ramp(1), s |-> Ramp(2)]}

InitCodec ==
    /\ tx = [input_count |-> 1, input |-> <<EmptyInput>>]
    /\ tx0 = tx
    /\ pc = [t \in Threads |-> "idle"]
    /\ arg = [t \in Threads |-> NoArg]
    /\ loopi = [t \in Threads |-> 0]
    /\ view = [t \in Threads |-> <<>>]
    /\ hash = [t \in Threads |-> -1]
    /\ entry = [t \in Threads |-> tx]
    /\ prev = None
    /\ calls = 0
    /\ locking = TRUE
    /\ lock = 0
    /\ aborted = FALSE
    /\ sg = Idle
    /\ host \in {"little", "big"}
    /\ cd = Idle

\* signature_to_proto(ctx, sig) on x.
Encode(x) ==
    LET res == signature_to_proto(host, x)
    IN /\ cd' = [op |-> "encode", x |-> x, out |-> res]
       /\ aborted' = (res.status = "abort")

\* proto_to_signature(pb, sig) with *sig holding buf before the call;
\* x is the signature pb was encoded from, if it was.
Decode(pb, buf, x) ==
    LET res == proto_to_signature(host, pb)
    IN /\ cd' = [op |-> "decode", x |-> x, pb |-> pb, before |-> buf,
                 sig |-> res.sig, ret |-> res.ret]
       /\ UNCHANGED aborted

\* A signature is encoded for sending.
EncodeInput ==
    /\ ~aborted
    /\ cd = Idle
    /\ \E x \in SigInputs : Encode(x)
    /\ UNCHANGED <<tx, threadVars, sg, host>>

\* What encode produced is decoded on the same host.
DecodeEncoded ==
    /\ ~aborted
    /\ cd.op = "encode"
    /\ \E buf \in Buffers : Decode(cd.out.pb, buf, cd.x)
    /\ UNCHANGED <<tx, threadVars, sg, host>>

\* A record arrives from a peer and is decoded.
DecodeWire ==
    /\ ~aborted
    /\ cd = Idle
    /\ \E pb \in WireInputs, buf \in Buffers : Decode(pb, buf, None)
    /\ UNCHANGED <<tx, threadVars, sg, host>>

\* The caller encodes what its struct signature holds after a decode.
EncodeDecoded ==
    /\ ~aborted
    /\ cd.op = "decode"
    /\ cd.x = None
    /\ Encode(cd.sig)
    /\ UNCHANGED <<tx, threadVars, sg, host>>

NextCodec ==
    \/ EncodeInput
    \/ DecodeEncoded
    \/ DecodeWire
    \/ EncodeDecoded

SpecCodec == InitCodec /\ [][NextCodec]_vars

-----------------------------------------------------------------------------
(* Properties of the digest builder *)

InRange(t) == arg[t].input_num < entry[t].input_count

\* The digest a call returns when nothing else touches the transaction
\* between its entry and its return.
AloneDigest(t) == HashTx(InstallScript(entry[t], arg[t]))

\* C1 as stated: after a call with an in-range input number, returned or
\* failed, every input has script_length 0 and the transaction is identical
\* to what it was before the call.
C1_RestoredIdentical ==
    locking =>
        \A t \in Threads :
            (pc[t] \in {"ret", "abort"} /\ InRange(t))
                => (AllZeroed(tx) /\ tx = entry[t])

\* The part of C1 that fails even for a call that returns: a returned call
\* leaves the transaction identical to what it was before the call.
C1_ReturnedIdentical ==
    locking => \A t \in Threads : pc[t] = "ret" => tx = entry[t]

\* C1 amended: a call that returns (its input number was in range and every
\* script_length was 0 on entry) leaves every script_length 0 and every
\* input as it was, except that the script pointer of input_num is NULL; a
\* call that fails an assertion aborts with the transaction untouched, and
\* it does so exactly when the input number is out of range or some
\* script_length was not 0 on entry.
C1_RestoredZeroed ==
    locking =>
        \A t \in Threads :
            /\ pc[t] = "ret" =>
                  /\ InRange(t) /\ AllZeroed(entry[t])
                  /\ AllZeroed(tx)
                  /\ tx = [entry[t] EXCEPT
                              !.input[arg[t].input_num + 1].script = NULL]
            /\ pc[t] = "abort" =>
                  /\ tx = entry[t]
                  /\ ~InRange(t) \/ ~AllZeroed(entry[t])

\* A serialised call that installed a non-empty script on an input whose
\* pointer was not NULL has returned.
C1_Witness ==
    /\ locking
    /\ \E t \in Threads :
          /\ pc[t] = "ret"
          /\ arg[t].len > 0
          /\ Input(entry[t], arg[t].input_num).script # NULL

\* C10: when the calls on the shared transaction are serialised and the
\* transaction started with every script empty, every call finds every
\* script empty on entry (so the assertion of line 65 never fails), returns
\* the digest it returns running alone, and returns the digest of the
\* previous call when its arguments are the same.
C10_SerializedDeterministic ==
    (locking /\ AllZeroed(tx0)) =>
        \A t \in Threads :
            /\ pc[t] # "idle" => AllZeroed(entry[t])
            /\ pc[t] = "abort" => ~InRange(t)
            /\ pc[t] # "fault"
            /\ pc[t] \in {"read_len", "read_ptr", "hash"} =>
                  tx = InstallScript(entry[t], arg[t])
            /\ pc[t] \in {"reset_len", "reset_ptr", "ret"} =>
                  hash[t] = AloneDigest(t)
            /\ (pc[t] = "ret" /\ prev # None /\ prev.arg = arg[t])
                  => hash[t] = prev.hash

\* Two successive serialised calls with the same non-empty script have
\* returned the same digest.
C10_Witness ==
    /\ locking /\ AllZeroed(tx0)
    /\ \E t \in Threads :
          /\ pc[t] = "ret"
          /\ prev # None /\ prev.arg = arg[t]
          /\ arg[t].len > 0
          /\ hash[t] = prev.hash

\* The other half of C10, as the statement TLC refutes under SpecRace:
\* without the lock no call would see a non-empty script on entry or hash
\* the transaction with another call's script installed.
C10_NoRaceWithoutLock ==
    (~locking /\ AllZeroed(tx0)) =>
        \A t \in Threads :
            /\ pc[t] # "idle" => AllZeroed(entry[t])
            /\ pc[t] \in {"reset_len", "reset_ptr", "ret"} =>
                  hash[t] = AloneDigest(t)

\* What atomic stores would give and SpecRace refutes: the length and the
\* pointer of every input come from one call, or are both cleared.
C10_PairedWithoutLock ==
    ~locking =>
        \A i \in 1..tx.input_count :
            \/ tx.input[i].script_length = 0 /\ tx.input[i].script = NULL
            \/ tx.input[i] = tx0.input[i]
            \/ \E s \in ScriptArgs :
                  tx.input[i] = [script_length |-> s.len, script |-> s.script]

\* What serialised calls would give and SpecRace refutes: no call reads
\* script bytes outside the buffer its pointer refers to.
C10_InBoundsWithoutLock ==
    ~locking =>
        \A t \in Threads :
            /\ pc[t] # "fault"
            /\ pc[t] = "hash" => \A i \in 1..Len(view[t]) : InBounds(view[t][i])

-----------------------------------------------------------------------------
(* Properties of the signer and the verifier *)

Signed == sg.op \in {"sign_hash", "sign_tx_input"} /\ sg.out.status # "tx_abort"

\* C2: sign_hash either returns NULL, which it does exactly when the signing
\* primitive returned NULL, or returns a signature whose s has low bit 0:
\* order - s when the primitive's s was odd, the primitive's s when it was
\* even; r is the primitive's r.
C2_SignedSIsEven ==
    Signed =>
        IF sg.raw = NullSig THEN sg.out.status = "null"
        ELSE /\ sg.out.status = "ok"
             /\ sg.out.sig.s[SigBytes] % 2 = 0
             /\ BN_bin2bn(sg.out.sig.r) = sg.raw.r
             /\ BN_bin2bn(sg.out.sig.s) =
                   IF sg.raw.s % 2 = 1 THEN CurveN - sg.raw.s ELSE sg.raw.s

\* sign_hash has returned a signature after replacing an odd s.
C2_Witness ==
    /\ Signed /\ sg.raw # NullSig
    /\ sg.raw.s % 2 = 1
    /\ sg.out.status = "ok"

\* The verifier was run on exactly what the signer returned, over the signed
\* digest, with the signer's public key in any of its forms.
CheckedOwnSignature ==
    /\ sg.op = "check_signed_hash"
    /\ sg.sig = sg.signed
    /\ sg.h = sg.signed_h
    /\ o2i_ECPublicKey(sg.key) = PointMul(sg.d, G)

\* C4: when sign_hash(h, k) returned sig, check_signed_hash(h, sig, pub)
\* passes its even-s assertion and, the libraries reporting no error of
\* their own, returns true.
C4_SignThenVerify ==
    CheckedOwnSignature =>
        /\ sg.out.status = "ret"
        /\ sg.fault = "none" => sg.out.ok

\* The verifier has accepted a signature whose s the signer had replaced by
\* order - s.
C4_Witness ==
    /\ CheckedOwnSignature
    /\ sg.raw.s % 2 = 1
    /\ sg.fault = "none"
    /\ sg.out.ok

\* C9: check_signed_hash returns true only when the key decoded, r and s
\* decoded and ECDSA_do_verify returned 1; a key that does not decode, a
\* BN_bin2bn failure, a result 0 and a result -1 each give false; on every
\* return the key object has been freed and r and s have been freed exactly
\* when they had been initialised.
C9_TrueOnlyOnValid ==
    (sg.op = "check_signed_hash" /\ sg.out.status = "ret") =>
        /\ sg.out.ok <=>
              /\ o2i_ECPublicKey(sg.key) # Inf
              /\ sg.fault = "none"
              /\ ECDSA_do_verify(sg.h, BN_bin2bn(sg.sig.r), BN_bin2bn(sg.sig.s),
                             o2i_ECPublicKey(sg.key)) = 1
        /\ sg.out.eckey_freed
        /\ sg.out.bn_freed <=> sg.out.bn_init
        /\ sg.out.bn_init <=> o2i_ECPublicKey(sg.key) # Inf

\* ECDSA_do_verify has returned -1 of its own (u1*G + u2*Q at infinity) and
\* check_signed_hash has returned false with everything freed.
C9_Witness ==
    /\ sg.op = "check_signed_hash"
    /\ sg.out.status = "ret"
    /\ sg.fault = "none"
    /\ sg.out.path = "error"
    /\ ~sg.out.ok /\ sg.out.eckey_freed /\ sg.out.bn_freed

\* What each of the two checks of a 2-of-2 call gives when it is run.
First2of2 == check_signed_hash(sg.out.hash, sg.sig1, sg.key1, sg.f1)
Second2of2 == check_signed_hash(sg.out.hash, sg.sig2, sg.key2, sg.f2)

\* The call got past its own assertions and the digest builder's.
Reached2of2Checks == sg.op = "check_2of2_sig" /\ sg.out.hash # -1

\* C5 as stated: for every pair of signatures, non-canonical ones included,
\* check_2of2_sig ends as the evaluation of both checks ends: true iff both
\* return true, and aborting iff one of them aborts.
C5_SameAsEvaluatingBoth ==
    Reached2of2Checks =>
        IF First2of2.status = "abort" \/ Second2of2.status = "abort"
        THEN sg.out.status = "abort"
        ELSE sg.out.status = "ret" /\ sg.out.ret = (First2of2.ok /\ Second2of2.ok)

\* C5 amended: when both signatures are canonical (s even) check_2of2_sig
\* returns true iff both checks over the shared digest return true; when the
\* first check returns false it returns false whatever the second signature
\* is; it aborts iff the first signature has an odd s, or the first check
\* returned true and the second signature has an odd s.
C5_BothCanonical ==
    Reached2of2Checks =>
        /\ (EvenS(sg.sig1) /\ EvenS(sg.sig2)) =>
              /\ sg.out.status = "ret"
              /\ sg.out.ret = (First2of2.ok /\ Second2of2.ok)
        /\ (EvenS(sg.sig1) /\ ~First2of2.ok) =>
              (sg.out.status = "ret" /\ ~sg.out.ret)
        /\ sg.out.status = "abort" <=>
              (~EvenS(sg.sig1) \/ (First2of2.ok /\ ~EvenS(sg.sig2)))

\* Both parties' canonical signatures were checked and the call returned
\* true, leaving the transaction's scripts empty.
C5_Witness ==
    /\ Reached2of2Checks
    /\ sg.out.status = "ret" /\ sg.out.ret
    /\ sg.key1 # sg.key2
    /\ AllZeroed(tx)

-----------------------------------------------------------------------------
(* Properties of the codec *)

ZeroWord == Zeros(WordBytes)

WordNames == {"r1", "r2", "r3", "r4", "s1", "s2", "s3", "s4"}

RoundTrip == cd.op = "decode" /\ cd.x # None

\* C3: for a canonical signature x, proto_to_signature on what
\* signature_to_proto made of x returns true and leaves r and s equal to
\* x's byte for byte; the all-zero signature is encoded as eight zero words.
C3_RoundTrip ==
    /\ RoundTrip =>
          /\ cd.ret
          /\ cd.sig = cd.x
          /\ cd.x = ZeroSig => \A w \in WordNames : cd.pb[w] = ZeroWord
    /\ (cd.op = "encode" /\ cd.out.status = "ok" /\ cd.x = ZeroSig) =>
          \A w \in WordNames : cd.out.pb[w] = ZeroWord

\* A signature whose bytes all differ has come back from a round trip on a
\* little-endian host.
C3_Witness ==
    /\ RoundTrip
    /\ host = "little"
    /\ cd.x.r = Ramp(0) /\ cd.x.s = Ramp(0)
    /\ cd.sig = cd.x

\* C6 as stated: signature_to_proto returns a record for every struct
\* signature it is given and never aborts.
C6_EncodeNeverAborts ==
    cd.op = "encode" => cd.out.status = "ok"

\* C6 amended: signature_to_proto returns a record of eight 8-byte words for
\* every struct signature whose s is even, and aborts at the assertion of
\* line 158 for every one whose s is odd.
C6_EncodeTotalOnEvenS ==
    cd.op = "encode" =>
        IF EvenS(cd.x)
        THEN /\ cd.out.status = "ok"
             /\ DOMAIN cd.out.pb = WordNames
             /\ \A w \in WordNames :
                   /\ Len(cd.out.pb[w]) = WordBytes
                   /\ \A i \in 1..WordBytes : cd.out.pb[w][i] \in 0..255
        ELSE cd.out.status = "abort" /\ aborted

\* A signature with odd r and even s has been encoded.
C6_Witness ==
    /\ cd.op = "encode"
    /\ cd.x.r[SigBytes] % 2 = 1
    /\ EvenS(cd.x)
    /\ cd.out.status = "ok"

\* C7: when the record's reassembled s is odd, proto_to_signature returns
\* false and the caller's struct signature holds what it held before the
\* call, none of the record's bytes.
C7_NothingDeliveredOnFailure ==
    (cd.op = "decode" /\ ~cd.ret) => cd.sig = cd.before

\* The returned value alone: false exactly when the reassembled s is odd.
C7_FailureReported ==
    cd.op = "decode" => (cd.ret <=> cd.sig.s[SigBytes] % 2 = 0)

\* C8: whatever the host's byte order, the value of each word is the
\* big-endian reading of its eight bytes of r or s: its digits, most
\* significant first, are those bytes in order.
C8_WordsBigEndian ==
    (cd.op = "encode" /\ cd.out.status = "ok") =>
        /\ cd.out.pb.r1 = Chunk(cd.x.r, 0) /\ cd.out.pb.r2 = Chunk(cd.x.r, 8)
        /\ cd.out.pb.r3 = Chunk(cd.x.r, 16) /\ cd.out.pb.r4 = Chunk(cd.x.r, 24)
        /\ cd.out.pb.s1 = Chunk(cd.x.s, 0) /\ cd.out.pb.s2 = Chunk(cd.x.s, 8)
        /\ cd.out.pb.s3 = Chunk(cd.x.s, 16) /\ cd.out.pb.s4 = Chunk(cd.x.s, 24)

\* What holds of the words: big-endian on a big-endian host only.
C8_WordsHostOrder ==
    (cd.op = "encode" /\ cd.out.status = "ok") =>
        \A w \in {0, 8, 16, 24} :
            /\ cd.out.pb[<<"r1", "r2", "r3", "r4">>[(w \div 8) + 1]] =
                  IF host = "big" THEN Chunk(cd.x.r, w)
                  ELSE Reverse(Chunk(cd.x.r, w))
            /\ cd.out.pb[<<"s1", "s2", "s3", "s4">>[(w \div 8) + 1]] =
                  IF host = "big" THEN Chunk(cd.x.s, w)
                  ELSE Reverse(Chunk(cd.x.s, w))

=============================================================================
